---- MODULE Spec2Model ----
(***************************************************************************)
(* retro-dat: the datafile reader (DatReader::read_all and the recursive   *)
(* descent below it), the node capability tables of xml_element.rs and the *)
(* attribute coercions of xml_attr.rs.                                     *)
(*                                                                         *)
(* The token source (quick_xml::Reader) is the environment: every read of  *)
(* an event is a nondeterministic choice among the events the document may *)
(* hold at that point.  `seen` is the prefix of the document consumed so   *)
(* far; the claims are stated against it.                                  *)
(*                                                                         *)
(* Rust values are modelled as follows: a String is a TLA+ string (push_str*)
(* is \o), a Vec is a sequence, Option<T> is a sequence of length 0 or 1   *)
(* (None == <<>>, Some(x) == <<x>>), an enum is the name of its variant.   *)
(***************************************************************************)
EXTENDS Integers, Sequences, FiniteSets, TLC

VARIABLES
    pc,       \* "ready": reader constructed; "running": inside read_all; "done"
    strict,   \* DatReader.strict
    result,   \* read_all's local `result: Option<DataFile>`
    stack,    \* open read_content / skip_content frames below read_all
    ret,      \* what read_all returned: Option<[kind, err, doc]>
    seen,     \* events the reader has handed out so far, in order
    profile,  \* which vocabulary the document under the reader is drawn from
    field,    \* a single attribute target: [type, val] (coercion specification)
    applied   \* the last set_from_str on `field`: Option<[value, old, ok]>

vars == <<pc, strict, result, stack, ret, seen, profile, field, applied>>

----------------------------------------------------------------------------
(* Bounds of the model *)

\* the document holds at most this many events before end-of-input
MaxEvents == 6

----------------------------------------------------------------------------
(* Option<T> *)

None == <<>>

Some(x) == <<x>>

IsSome(o) == o # <<>>

Last(s) == s[Len(s)]

Front(s) == SubSeq(s, 1, Len(s) - 1)

----------------------------------------------------------------------------
(* lib.rs: the typed tree and its defaults *)

ForceMergingVariants == {"None", "Split", "Full"}

ForceNoDumpVariants == {"Obsolete", "Required", "Ignore"}

ForcePackingVariants == {"Zip", "Unzip"}

RomModeVariants == {"Merged", "Split", "Unmerged"}

SampleModeVariants == {"Merged", "Unmerged"}

StatusVariants == {"BadDump", "NoDump", "Good", "Verified"}

ForceMergingDefault == "Split"

ForceNoDumpDefault == "Obsolete"

ForcePackingDefault == "Zip"

RomModeDefault == "Split"

SampleModeDefault == "Merged"

StatusDefault_FirstVariant == "BadDump"

StatusDefault == "Good"

ClrMameProDefault ==
    [header |-> "", force_merging |-> ForceMergingDefault,
     force_no_dump |-> ForceNoDumpDefault, force_packing |-> ForcePackingDefault]

RomCenterDefault ==
    [plugin |-> "", rom_mode |-> RomModeDefault, bios_mode |-> RomModeDefault,
     sample_mode |-> SampleModeDefault, lock_rom_mode |-> FALSE,
     lock_bios_mode |-> FALSE, lock_sample_mode |-> FALSE]

HeaderDefault ==
    [name |-> "", description |-> "", category |-> "", version |-> "",
     date |-> "", author |-> "", email |-> "", homepage |-> "", url |-> "",
     comment |-> "", clr_mame_pro |-> None, rom_center |-> None]

\* `id`, `clone_of_id` (and `sha256` of Rom) are the fields Game::attr and
\* Rom::attr of xml_element.rs bind; they are Strings like their neighbours.
GameDefault ==
    [id |-> "", name |-> "", description |-> "", is_bios |-> FALSE,
     source_file |-> "", clone_of |-> "", clone_of_id |-> "", rom_of |-> "",
     sample_of |-> "", board |-> "", rebuild_to |-> "", comments |-> <<>>,
     year |-> "", manufacturer |-> "", releases |-> <<>>, bios_sets |-> <<>>,
     roms |-> <<>>, disks |-> <<>>, samples |-> <<>>, archives |-> <<>>]

ReleaseDefault ==
    [name |-> "", region |-> "", language |-> "", date |-> "", default |-> FALSE]

BiosSetDefault == [name |-> "", description |-> "", default |-> FALSE]

RomDefault ==
    [name |-> "", size |-> "", crc |-> "", sha1 |-> "", sha256 |-> "",
     md5 |-> "", merge |-> "", status |-> StatusDefault, date |-> "",
     serial |-> ""]

DiskDefault ==
    [name |-> "", sha1 |-> "", md5 |-> "", merge |-> "", status |-> StatusDefault]

SampleDefault == [name |-> ""]

ArchiveDefault == [name |-> ""]

DataFileDefault_WithHeader ==
    [build |-> "", debug |-> FALSE, header |-> Some(HeaderDefault), games |-> <<>>]

DataFileDefault ==
    [build |-> "", debug |-> FALSE, header |-> None, games |-> <<>>]

----------------------------------------------------------------------------
(* xml_attr.rs: XmlAttr::set_from_str, one operator per impl.  Each takes  *)
(* the field's current value and the attribute text and yields the success *)
(* flag with the field's value afterwards.                                 *)

Coerced(ok, val) == [ok |-> ok, val |-> val]

SetString(cur, value) == Coerced(TRUE, "" \o value)

SetBool_Reset(cur, value) ==
    CASE value = "yes" -> Coerced(TRUE, TRUE)
      [] value = "no"  -> Coerced(TRUE, FALSE)
      [] OTHER         -> Coerced(FALSE, FALSE)

SetBool(cur, value) ==
    CASE value = "yes" -> Coerced(TRUE, TRUE)
      [] value = "no"  -> Coerced(TRUE, FALSE)
      [] OTHER         -> Coerced(FALSE, cur)

SetForceMerging(cur, value) ==
    CASE value = "none"  -> Coerced(TRUE, "None")
      [] value = "split" -> Coerced(TRUE, "Split")
      [] value = "full"  -> Coerced(TRUE, "Full")
      [] OTHER           -> Coerced(FALSE, cur)

SetForceNoDump(cur, value) ==
    CASE value = "obsolete" -> Coerced(TRUE, "Obsolete")
      [] value = "required" -> Coerced(TRUE, "Required")
      [] value = "ignore"   -> Coerced(TRUE, "Ignore")
      [] OTHER              -> Coerced(FALSE, cur)

SetForcePacking(cur, value) ==
    CASE value = "zip"   -> Coerced(TRUE, "Zip")
      [] value = "unzip" -> Coerced(TRUE, "Unzip")
      [] OTHER           -> Coerced(FALSE, cur)

SetRomMode(cur, value) ==
    CASE value = "merged"   -> Coerced(TRUE, "Merged")
      [] value = "split"    -> Coerced(TRUE, "Split")
      [] value = "unmerged" -> Coerced(TRUE, "Unmerged")
      [] OTHER              -> Coerced(FALSE, cur)

SetSampleMode(cur, value) ==
    CASE value = "merged"   -> Coerced(TRUE, "Merged")
      [] value = "unmerged" -> Coerced(TRUE, "Unmerged")
      [] OTHER              -> Coerced(FALSE, cur)

SetStatus(cur, value) ==
    CASE value = "baddump"  -> Coerced(TRUE, "BadDump")
      [] value = "nodump"   -> Coerced(TRUE, "NoDump")
      [] value = "good"     -> Coerced(TRUE, "Good")
      [] value = "verified" -> Coerced(TRUE, "Verified")
      [] OTHER              -> Coerced(FALSE, cur)

\* dynamic dispatch of `target.set_from_str(&value)` on the field's type
set_from_str(type, cur, value) ==
    CASE type = "String"       -> SetString(cur, value)
      [] type = "bool"         -> SetBool(cur, value)
      [] type = "ForceMerging" -> SetForceMerging(cur, value)
      [] type = "ForceNoDump"  -> SetForceNoDump(cur, value)
      [] type = "ForcePacking" -> SetForcePacking(cur, value)
      [] type = "RomMode"      -> SetRomMode(cur, value)
      [] type = "SampleMode"   -> SetSampleMode(cur, value)
      [] type = "Status"       -> SetStatus(cur, value)

----------------------------------------------------------------------------
(* References into the tree.  A cursor's `element: &mut dyn XmlElement` is *)
(* modelled by the place it points to: `kind` is the Rust type behind the  *)
(* reference, `at` the struct that owns the place, `g` the index of the    *)
(* game, `i` the index within the game's Vec, `field` the String field.    *)

Ref(kind, at, g, i, f) == [kind |-> kind, at |-> at, g |-> g, i |-> i, field |-> f]

DataFileRef == Ref("DataFile", "DataFile", 0, 0, "")

HeaderRef == Ref("Header", "Header", 0, 0, "")

ClrMameProRef == Ref("ClrMamePro", "ClrMamePro", 0, 0, "")

RomCenterRef == Ref("RomCenter", "RomCenter", 0, 0, "")

GameRef(g) == Ref("Game", "Game", g, 0, "")

ItemRef(kind, g, i) == Ref(kind, kind, g, i, "")

HeaderStr(f) == Ref("String", "Header", 0, 0, f)

GameStr(g, f) == Ref("String", "Game", g, 0, f)

CommentStr(g, i) == Ref("String", "Comments", g, i, "")

\* the Vec of Game that holds the elements of a kind
VecOf(kind) ==
    CASE kind = "Release" -> "releases"
      [] kind = "BiosSet" -> "bios_sets"
      [] kind = "Rom"     -> "roms"
      [] kind = "Disk"    -> "disks"
      [] kind = "Sample"  -> "samples"
      [] kind = "Archive" -> "archives"

\* the struct a reference points into
Node(doc, r) ==
    CASE r.at = "DataFile"   -> doc
      [] r.at = "Header"     -> doc.header[1]
      [] r.at = "ClrMamePro" -> doc.header[1].clr_mame_pro[1]
      [] r.at = "RomCenter"  -> doc.header[1].rom_center[1]
      [] r.at = "Game"       -> doc.games[r.g]
      [] OTHER               -> doc.games[r.g][VecOf(r.at)][r.i]

WithNode(doc, r, n) ==
    CASE r.at = "DataFile"   -> n
      [] r.at = "Header"     -> [doc EXCEPT !.header[1] = n]
      [] r.at = "ClrMamePro" -> [doc EXCEPT !.header[1].clr_mame_pro[1] = n]
      [] r.at = "RomCenter"  -> [doc EXCEPT !.header[1].rom_center[1] = n]
      [] r.at = "Game"       -> [doc EXCEPT !.games[r.g] = n]
      [] OTHER               -> [doc EXCEPT !.games[r.g][VecOf(r.at)][r.i] = n]

\* *r for a reference to a String
ReadString(doc, r) ==
    IF r.at = "Comments" THEN doc.games[r.g].comments[r.i]
    ELSE Node(doc, r)[r.field]

WriteString(doc, r, s) ==
    IF r.at = "Comments" THEN [doc EXCEPT !.games[r.g].comments[r.i] = s]
    ELSE WithNode(doc, r, [Node(doc, r) EXCEPT ![r.field] = s])

----------------------------------------------------------------------------
(* xml_element.rs: XmlElement::attr.  The result is the Option of the      *)
(* resolved field and the type whose set_from_str the field dispatches to. *)

Target(f, type) == Some([field |-> f, type |-> type])

DataFile_attr(key) ==
    CASE key = "build" -> Target("build", "String")
      [] key = "debug" -> Target("debug", "bool")
      [] OTHER         -> None

ClrMamePro_attr(key) ==
    CASE key = "header"       -> Target("header", "String")
      [] key = "forcemerging" -> Target("force_merging", "ForceMerging")
      [] key = "forcenodump"  -> Target("force_no_dump", "ForceNoDump")
      [] key = "forcepacking" -> Target("force_packing", "ForcePacking")
      [] OTHER                -> None

RomCenter_attr_BiosAsRom(key) ==
    CASE key = "plugin"         -> Target("plugin", "String")
      [] key = "rommode"        -> Target("rom_mode", "RomMode")
      [] key = "biosmode"       -> Target("rom_mode", "RomMode")
      [] key = "samplemode"     -> Target("sample_mode", "SampleMode")
      [] key = "lockrommode"    -> Target("lock_rom_mode", "bool")
      [] key = "lockbiosmode"   -> Target("lock_bios_mode", "bool")
      [] key = "locksamplemode" -> Target("lock_sample_mode", "bool")
      [] OTHER                  -> None

RomCenter_attr(key) ==
    CASE key = "plugin"         -> Target("plugin", "String")
      [] key = "rommode"        -> Target("rom_mode", "RomMode")
      [] key = "biosmode"       -> Target("bios_mode", "RomMode")
      [] key = "samplemode"     -> Target("sample_mode", "SampleMode")
      [] key = "lockrommode"    -> Target("lock_rom_mode", "bool")
      [] key = "lockbiosmode"   -> Target("lock_bios_mode", "bool")
      [] key = "locksamplemode" -> Target("lock_sample_mode", "bool")
      [] OTHER                  -> None

Game_attr(key) ==
    CASE key = "id"         -> Target("id", "String")
      [] key = "name"       -> Target("name", "String")
      [] key = "sourcefile" -> Target("source_file", "String")
      [] key = "isbios"     -> Target("is_bios", "bool")
      [] key = "cloneof"    -> Target("clone_of", "String")
      [] key = "cloneofid"  -> Target("clone_of_id", "String")
      [] key = "romof"      -> Target("rom_of", "String")
      [] key = "sampleof"   -> Target("sample_of", "String")
      [] key = "board"      -> Target("board", "String")
      [] key = "rebuildto"  -> Target("rebuild_to", "String")
      [] OTHER              -> None

Release_attr(key) ==
    CASE key = "name"     -> Target("name", "String")
      [] key = "region"   -> Target("region", "String")
      [] key = "language" -> Target("language", "String")
      [] key = "date"     -> Target("date", "String")
      [] key = "default"  -> Target("default", "bool")
      [] OTHER            -> None

BiosSet_attr(key) ==
    CASE key = "name"        -> Target("name", "String")
      [] key = "description" -> Target("description", "String")
      [] key = "default"     -> Target("default", "bool")
      [] OTHER               -> None

Rom_attr(key) ==
    CASE key = "name"   -> Target("name", "String")
      [] key = "size"   -> Target("size", "String")
      [] key = "crc"    -> Target("crc", "String")
      [] key = "sha1"   -> Target("sha1", "String")
      [] key = "sha256" -> Target("sha256", "String")
      [] key = "md5"    -> Target("md5", "String")
      [] key = "merge"  -> Target("merge", "String")
      [] key = "status" -> Target("status", "Status")
      [] key = "date"   -> Target("date", "String")
      [] key = "serial" -> Target("serial", "String")
      [] OTHER          -> None

Disk_attr(key) ==
    CASE key = "name"   -> Target("name", "String")
      [] key = "sha1"   -> Target("sha1", "String")
      [] key = "md5"    -> Target("md5", "String")
      [] key = "merge"  -> Target("merge", "String")
      [] key = "status" -> Target("status", "Status")
      [] OTHER          -> None

Sample_attr(key) ==
    CASE key = "name" -> Target("name", "String")
      [] OTHER        -> None

Archive_attr(key) ==
    CASE key = "name" -> Target("name", "String")
      [] OTHER        -> None

\* dynamic dispatch of `self.element.attr(&key)`; Header and String keep the
\* trait's default method
attr_HeaderNamed(kind, key) ==
    CASE kind = "DataFile"   -> DataFile_attr(key)
      [] kind = "ClrMamePro" -> ClrMamePro_attr(key)
      [] kind = "RomCenter"  -> RomCenter_attr(key)
      [] kind = "Game"       -> Game_attr(key)
      [] kind = "Release"    -> Release_attr(key)
      [] kind = "BiosSet"    -> BiosSet_attr(key)
      [] kind = "Rom"        -> Rom_attr(key)
      [] kind = "Disk"       -> Disk_attr(key)
      [] kind = "Sample"     -> Sample_attr(key)
      [] kind = "Archive"    -> Archive_attr(key)
      [] kind = "Header" /\ key = "name" -> Target("name", "String")
      [] OTHER               -> None

attr(kind, key) ==
    CASE kind = "DataFile"   -> DataFile_attr(key)
      [] kind = "ClrMamePro" -> ClrMamePro_attr(key)
      [] kind = "RomCenter"  -> RomCenter_attr(key)
      [] kind = "Game"       -> Game_attr(key)
      [] kind = "Release"    -> Release_attr(key)
      [] kind = "BiosSet"    -> BiosSet_attr(key)
      [] kind = "Rom"        -> Rom_attr(key)
      [] kind = "Disk"       -> Disk_attr(key)
      [] kind = "Sample"     -> Sample_attr(key)
      [] kind = "Archive"    -> Archive_attr(key)
      [] OTHER               -> None

----------------------------------------------------------------------------
(* xml_element.rs: XmlElement::child.  Resolving a child may change the    *)
(* tree (push, get_or_insert_with), so the result carries the tree after   *)
(* the call together with the Option<XmlCursor>.                           *)

Cursor(tag, r) == [tag |-> tag, ref |-> r]

Resolved(doc, tag, r) == [found |-> TRUE, doc |-> doc, cursor |-> Cursor(tag, r)]

Unresolved(doc) == [found |-> FALSE, doc |-> doc, cursor |-> Cursor("", DataFileRef)]

\* Option::get_or_insert_with
GetOrInsertWith_Replace(o, default) == Some(default)

GetOrInsertWith(o, default) == IF IsSome(o) THEN o ELSE Some(default)

\* self.<vec>.push(T::default()); cursor(tag, self.<vec>.last_mut().unwrap())
PushItem_BindFirst(doc, g, tag, kind, default) ==
    LET grown == [doc EXCEPT !.games[g][VecOf(kind)] = Append(@, default)]
    IN  Resolved(grown, tag, ItemRef(kind, g, 1))

PushItem(doc, g, tag, kind, default) ==
    LET grown == [doc EXCEPT !.games[g][VecOf(kind)] = Append(@, default)]
    IN  Resolved(grown, tag, ItemRef(kind, g, Len(grown.games[g][VecOf(kind)])))

DataFile_child_Prepend(doc, tag) ==
    CASE tag = "header" ->
            Resolved([doc EXCEPT !.header = GetOrInsertWith(@, HeaderDefault)],
                     "header", HeaderRef)
      [] tag = "game" ->
            LET grown == [doc EXCEPT !.games = <<GameDefault>> \o @]
            IN  Resolved(grown, "game", GameRef(1))
      [] OTHER -> Unresolved(doc)

DataFile_child(doc, tag) ==
    CASE tag = "header" ->
            Resolved([doc EXCEPT !.header = GetOrInsertWith(@, HeaderDefault)],
                     "header", HeaderRef)
      [] tag = "game" ->
            LET grown == [doc EXCEPT !.games = Append(@, GameDefault)]
            IN  Resolved(grown, "game", GameRef(Len(grown.games)))
      [] OTHER -> Unresolved(doc)

Header_child(doc, tag) ==
    CASE tag \in {"name", "description", "category", "version", "date",
                  "author", "email", "homepage", "url", "comment"} ->
            Resolved(doc, tag, HeaderStr(tag))
      [] tag = "clrmamepro" ->
            Resolved([doc EXCEPT !.header[1].clr_mame_pro =
                                     GetOrInsertWith(@, ClrMameProDefault)],
                     "clrmamepro", ClrMameProRef)
      [] tag = "romcenter" ->
            Resolved([doc EXCEPT !.header[1].rom_center =
                                     GetOrInsertWith(@, RomCenterDefault)],
                     "romcenter", RomCenterRef)
      [] OTHER -> Unresolved(doc)

Game_child_NoName(doc, g, tag) ==
    CASE tag \in {"description", "year", "manufacturer"} ->
            Resolved(doc, tag, GameStr(g, tag))
      [] tag = "comment" ->
            LET grown == [doc EXCEPT !.games[g].comments = Append(@, "")]
            IN  Resolved(grown, "comment", CommentStr(g, Len(grown.games[g].comments)))
      [] tag = "release" -> PushItem(doc, g, "release", "Release", ReleaseDefault)
      [] tag = "biosset" -> PushItem(doc, g, "biosset", "BiosSet", BiosSetDefault)
      [] tag = "rom"     -> PushItem(doc, g, "rom", "Rom", RomDefault)
      [] tag = "disk"    -> PushItem(doc, g, "disk", "Disk", DiskDefault)
      [] tag = "sample"  -> PushItem(doc, g, "sample", "Sample", SampleDefault)
      [] tag = "archive" -> PushItem(doc, g, "archive", "Archive", ArchiveDefault)
      [] OTHER -> Unresolved(doc)

Game_child(doc, g, tag) ==
    CASE tag \in {"name", "description", "year", "manufacturer"} ->
            Resolved(doc, tag, GameStr(g, tag))
      [] tag = "comment" ->
            LET grown == [doc EXCEPT !.games[g].comments = Append(@, "")]
            IN  Resolved(grown, "comment", CommentStr(g, Len(grown.games[g].comments)))
      [] tag = "release" -> PushItem(doc, g, "release", "Release", ReleaseDefault)
      [] tag = "biosset" -> PushItem(doc, g, "biosset", "BiosSet", BiosSetDefault)
      [] tag = "rom"     -> PushItem(doc, g, "rom", "Rom", RomDefault)
      [] tag = "disk"    -> PushItem(doc, g, "disk", "Disk", DiskDefault)
      [] tag = "sample"  -> PushItem(doc, g, "sample", "Sample", SampleDefault)
      [] tag = "archive" -> PushItem(doc, g, "archive", "Archive", ArchiveDefault)
      [] OTHER -> Unresolved(doc)

\* dynamic dispatch of `cursor.element.child(&tag)`; every other type keeps
\* the trait's default method
child(doc, r, tag) ==
    CASE r.kind = "DataFile" -> DataFile_child(doc, tag)
      [] r.kind = "Header"   -> Header_child(doc, tag)
      [] r.kind = "Game"     -> Game_child(doc, r.g, tag)
      [] OTHER               -> Unresolved(doc)

\* XmlElement::content: only String exposes its buffer
content(r) == IF r.kind = "String" THEN Some(r) ELSE None

----------------------------------------------------------------------------
(* lib.rs: XmlCursor::apply_attrs.  An attribute is [key, value, ok]; ok   *)
(* is FALSE for one the tokenizer cannot deliver (`attr?`).  The result is *)
(* the error ("" for Ok(())) and the tree after the loop.                  *)

Applied(err, doc) == [err |-> err, doc |-> doc]

\* the tree after `target.set_from_str(&value)` on a resolved field
Coerce(doc, r, target, value) ==
    LET out == set_from_str(target.type, Node(doc, r)[target.field], value)
    IN  [ok  |-> out.ok,
         doc |-> WithNode(doc, r, [Node(doc, r) EXCEPT ![target.field] = out.val])]

RECURSIVE apply_attrs_StopAtFirst(_, _, _, _)
apply_attrs_StopAtFirst(doc, cursor, attrs, isStrict) ==
    IF attrs = <<>> THEN Applied("", doc)
    ELSE LET a == Head(attrs)
             target == attr(cursor.ref.kind, a.key)
             set == IF IsSome(target)
                    THEN Coerce(doc, cursor.ref, target[1], a.value)
                    ELSE [ok |-> FALSE, doc |-> doc]
         IN  IF ~a.ok THEN Applied("Xml", doc)
             ELSE IF set.ok
                  THEN apply_attrs_StopAtFirst(set.doc, cursor, Tail(attrs), isStrict)
             ELSE IF isStrict THEN Applied("UnexpectedAttribute", set.doc)
             ELSE Applied("", set.doc)

RECURSIVE apply_attrs_LenientIgnores(_, _, _, _)
apply_attrs_LenientIgnores(doc, cursor, attrs, isStrict) ==
    IF attrs = <<>> \/ ~isStrict THEN Applied("", doc)
    ELSE LET a == Head(attrs)
             target == attr(cursor.ref.kind, a.key)
             set == IF IsSome(target)
                    THEN Coerce(doc, cursor.ref, target[1], a.value)
                    ELSE [ok |-> FALSE, doc |-> doc]
         IN  IF ~a.ok THEN Applied("Xml", doc)
             ELSE IF set.ok
                  THEN apply_attrs_LenientIgnores(set.doc, cursor, Tail(attrs), isStrict)
             ELSE Applied("UnexpectedAttribute", set.doc)

RECURSIVE apply_attrs(_, _, _, _)
apply_attrs(doc, cursor, attrs, isStrict) ==
    IF attrs = <<>> THEN Applied("", doc)
    ELSE LET a == Head(attrs)
             target == attr(cursor.ref.kind, a.key)
             set == IF IsSome(target)
                    THEN Coerce(doc, cursor.ref, target[1], a.value)
                    ELSE [ok |-> FALSE, doc |-> doc]
         IN  IF ~a.ok THEN Applied("Xml", doc)
             ELSE IF set.ok
                  THEN apply_attrs(set.doc, cursor, Tail(attrs), isStrict)
             ELSE IF isStrict THEN Applied("UnexpectedAttribute", set.doc)
             ELSE apply_attrs(set.doc, cursor, Tail(attrs), isStrict)

----------------------------------------------------------------------------
(* The token source: quick_xml::Reader with trim_text and                  *)
(* expand_empty_elements, as DatReader::from_xml_reader configures it.     *)
(* Events: Start(name, attributes), Text / CData, End, Eof, Other (Decl,   *)
(* Comment, PI, DocType) and Fail, a read_event that returns Err.  A Text  *)
(* with ok = FALSE is one whose `unescaped()` fails.                       *)

Event(type, tag, attrs, text, ok) ==
    [type |-> type, tag |-> tag, attrs |-> attrs, text |-> text, ok |-> ok]

StartEv(tag, attrs) == Event("Start", tag, attrs, "", TRUE)

TextEv(text) == Event("Text", "", <<>>, text, TRUE)

CDataEv(text) == Event("CData", "", <<>>, text, TRUE)

BadTextEv == Event("Text", "", <<>>, "&bad;", FALSE)

EndEv == Event("End", "", <<>>, "", TRUE)

EofEv == Event("Eof", "", <<>>, "", TRUE)

OtherEv == Event("Other", "", <<>>, "", TRUE)

FailEv == Event("Fail", "", <<>>, "", FALSE)

Attr(key, value) == [key |-> key, value |-> value, ok |-> TRUE]

BadAttr == [key |-> "", value |-> "", ok |-> FALSE]

\* a vocabulary with one element of the schema, its parent and one event of
\* character data
TextInside(parent, tag, ev) ==
    {StartEv("datafile", <<>>), StartEv(parent, <<>>), StartEv(tag, <<>>), ev}

\* The vocabularies documents are drawn from: for each, the events other
\* than End and Eof that a document of that vocabulary may hold.
Vocabulary(p) ==
    CASE p = "games" ->
            {StartEv("datafile", <<>>),
             StartEv("game", <<Attr("sourcefile", "a")>>),
             StartEv("game", <<Attr("sourcefile", "b")>>),
             StartEv("bogus", <<>>)}
      [] p = "skip" ->
            {StartEv("datafile", <<>>),
             StartEv("game", <<>>),
             StartEv("rom", <<>>),
             StartEv("bogus", <<>>)}
      [] p = "attrs" ->
            {StartEv("datafile", <<Attr("debug", "yes"), Attr("build", "B")>>),
             StartEv("datafile", <<Attr("debug", "on"), Attr("build", "B")>>),
             StartEv("game", <<Attr("isbios", "yes")>>),
             StartEv("game", <<Attr("isbios", "maybe"), Attr("sourcefile", "a")>>),
             StartEv("game", <<Attr("bogus", "x"), Attr("isbios", "yes")>>)}
      [] p = "clrmamepro" ->
            {StartEv("datafile", <<>>),
             StartEv("header", <<>>),
             StartEv("clrmamepro", <<>>),
             StartEv("clrmamepro", <<Attr("forcemerging", "full")>>)}
      [] p = "romcenter" ->
            {StartEv("datafile", <<>>),
             StartEv("header", <<>>),
             StartEv("romcenter", <<>>),
             StartEv("romcenter", <<Attr("biosmode", "unmerged"),
                                     Attr("lockrommode", "yes")>>)}
      [] p = "roms" ->
            {StartEv("datafile", <<>>),
             StartEv("game", <<>>),
             StartEv("rom", <<>>),
             StartEv("rom", <<Attr("status", "verified")>>),
             StartEv("disk", <<Attr("status", "bogus")>>)}
      [] p = "text" ->
            {StartEv("datafile", <<>>),
             StartEv("header", <<>>),
             StartEv("name", <<>>),
             TextEv("a"), BadTextEv}
      [] p = "noise" ->
            {StartEv("datafile", <<Attr("debug", "no"), BadAttr>>),
             StartEv("datafile", <<>>),
             CDataEv("b"), OtherEv, FailEv}
      [] p = "releases" ->
            {StartEv("datafile", <<>>),
             StartEv("game", <<Attr("sourcefile", "a")>>),
             StartEv("release", <<Attr("name", "r1"), Attr("default", "yes")>>),
             StartEv("release", <<Attr("name", "r2"), Attr("region", "eu")>>)}
      [] p = "sets" ->
            {StartEv("datafile", <<>>),
             StartEv("game", <<>>),
             StartEv("biosset", <<Attr("name", "b"), Attr("default", "yes")>>),
             StartEv("sample", <<Attr("name", "s")>>)}
      [] p = "comments" ->
            {StartEv("datafile", <<>>),
             StartEv("game", <<>>),
             StartEv("comment", <<>>),
             TextEv("c")}
      [] p = "archives" ->
            {StartEv("datafile", <<>>),
             StartEv("game", <<>>),
             StartEv("archive", <<Attr("name", "x")>>),
             StartEv("bogus", <<>>)}
      [] p = "leaves" ->
            {StartEv("datafile", <<>>),
             StartEv("game", <<>>),
             StartEv("name", <<>>),
             StartEv("description", <<>>)}
      [] p = "years" ->
            {StartEv("datafile", <<>>),
             StartEv("game", <<>>),
             StartEv("year", <<>>),
             StartEv("manufacturer", <<>>)}
      [] p = "roots" ->
            {StartEv("datafile", <<Attr("build", "B1"), Attr("debug", "yes")>>),
             StartEv("datafile", <<Attr("build", "B2"), Attr("debug", "no")>>),
             StartEv("game", <<Attr("sourcefile", "a")>>),
             StartEv("header", <<>>)}
      [] p = "releases in biossets" ->
            {StartEv("datafile", <<>>), StartEv("game", <<>>),
             StartEv("release", <<>>), StartEv("biosset", <<>>)}
      [] p = "roms in disks" ->
            {StartEv("datafile", <<>>), StartEv("game", <<>>),
             StartEv("rom", <<>>), StartEv("disk", <<>>)}
      [] p = "samples in archives" ->
            {StartEv("datafile", <<>>), StartEv("game", <<>>),
             StartEv("sample", <<>>), StartEv("archive", <<>>),
             StartEv("comment", <<Attr("id", "1")>>)}
      [] p = "tools in tools" ->
            {StartEv("datafile", <<>>), StartEv("header", <<>>),
             StartEv("clrmamepro", <<>>), StartEv("romcenter", <<>>)}
      [] p = "leaves in leaves" ->
            {StartEv("datafile", <<>>), StartEv("game", <<>>),
             StartEv("description", <<>>),
             StartEv("description", <<Attr("lang", "en")>>),
             StartEv("comment", <<>>)}
      [] p = "header attributes" ->
            {StartEv("datafile", <<>>),
             StartEv("header", <<>>),
             StartEv("header", <<Attr("name", "x")>>),
             StartEv("name", <<>>),
             StartEv("name", <<Attr("lang", "en")>>)}
      [] p = "header name" ->
            {StartEv("datafile", <<>>), StartEv("header", <<>>),
             StartEv("name", <<>>), TextEv("a"), CDataEv("b")}
      [] p = "header description" -> TextInside("header", "description", TextEv("a"))
      [] p = "header category" -> TextInside("header", "category", TextEv("a"))
      [] p = "header version" -> TextInside("header", "version", TextEv("a"))
      [] p = "header date" -> TextInside("header", "date", TextEv("a"))
      [] p = "header author" -> TextInside("header", "author", TextEv("a"))
      [] p = "header email" -> TextInside("header", "email", TextEv("a"))
      [] p = "header homepage" -> TextInside("header", "homepage", TextEv("a"))
      [] p = "header url" -> TextInside("header", "url", TextEv("a"))
      [] p = "header comment" -> TextInside("header", "comment", TextEv("a"))
      [] p = "game name" ->
            {StartEv("datafile", <<>>),
             StartEv("game", <<Attr("name", "g")>>),
             StartEv("name", <<>>), TextEv("n")}
      [] p = "game description" -> TextInside("game", "description", TextEv("a"))
      [] p = "game year" -> TextInside("game", "year", TextEv("a"))
      [] p = "game manufacturer" -> TextInside("game", "manufacturer", TextEv("a"))
      [] p = "faults" ->
            {StartEv("datafile", <<>>), CDataEv("b"), OtherEv, FailEv}
      [] p = "nesting" ->
            {StartEv("datafile", <<>>), StartEv("game", <<>>),
             StartEv("bogus", <<>>)}
      [] p = "text in release" -> TextInside("game", "release", TextEv("t"))
      [] p = "text in biosset" -> TextInside("game", "biosset", CDataEv("t"))
      [] p = "text in rom" -> TextInside("game", "rom", BadTextEv)
      [] p = "text in disk" -> TextInside("game", "disk", TextEv("t"))
      [] p = "text in sample" -> TextInside("game", "sample", CDataEv("t"))
      [] p = "text in archive" -> TextInside("game", "archive", BadTextEv)
      [] p = "text in clrmamepro" -> TextInside("header", "clrmamepro", TextEv("t"))
      [] p = "text in romcenter" -> TextInside("header", "romcenter", BadTextEv)

Profiles ==
    {"games", "skip", "attrs", "clrmamepro", "romcenter", "roms", "text", "noise"}

\* the vocabularies of the documents that exercise the children of a game
\* and the attributes of the elements below it
ChildProfiles ==
    {"games", "releases", "roms", "sets", "comments", "archives", "leaves",
     "years", "romcenter", "noise"}

\* the vocabularies of the documents with repeated roots and with elements
\* nested where the schema has none
NestingProfiles ==
    {"roots", "noise", "releases in biossets", "roms in disks",
     "samples in archives", "tools in tools", "leaves in leaves",
     "header attributes"}

\* the vocabularies of the documents with text in the text children of
\* header and game
LeafProfiles ==
    {"header name", "header description", "header category",
     "header version", "header date", "header author", "header email",
     "header homepage", "header url", "header comment", "game name",
     "game description", "game year", "game manufacturer", "noise"}

\* the vocabularies of the documents parsed to their end
LiveProfiles == {"faults", "nesting"}

\* the vocabularies of the documents that hold character data
TextProfiles ==
    {"text", "noise", "comments", "text in release", "text in biosset",
     "text in rom", "text in disk", "text in sample", "text in archive",
     "text in clrmamepro", "text in romcenter"}

\* the names of the elements open after the events of s, outermost first
RECURSIVE OpenTags(_)
OpenTags(s) ==
    IF s = <<>> THEN <<>>
    ELSE LET o == OpenTags(Front(s))
             e == Last(s)
         IN  CASE e.type = "Start" -> Append(o, e.tag)
               [] e.type = "End"   -> Front(o)
               [] OTHER            -> o

AtEof(s) == s # <<>> /\ Last(s).type = "Eof"

\* the reads a parse of MaxEvents events can need: the events, and the
\* end-of-input once for skip_content and once for its caller.  The source
\* is not asked beyond them, which keeps a parser that would not stop
\* reading within finitely many states.
ReadLimit == MaxEvents + 2

\* what the next read_event may return.  The reader checks end names, so
\* an End arrives only while an element is open; once it has answered Eof
\* it keeps answering Eof.
NextEvents(s, p) ==
    IF Len(s) >= ReadLimit THEN {}
    ELSE IF AtEof(s) THEN {EofEv}
    ELSE IF Len(s) >= MaxEvents THEN {EofEv}
    ELSE {EofEv} \cup Vocabulary(p)
                 \cup (IF OpenTags(s) # <<>> THEN {EndEv} ELSE {})

----------------------------------------------------------------------------
(* lib.rs: the driver.  The call stack below read_all is `stack`; a frame  *)
(* is a read_content with its cursor or a skip_content with its level.     *)

ReadContentFrame(c) == [fn |-> "read_content", cursor |-> c, level |-> 0]

SkipContentFrame(level) ==
    [fn |-> "skip_content", cursor |-> Cursor("", DataFileRef), level |-> level]

\* Result<DataFile, DatReaderError>
Ok(doc) == [kind |-> "Ok", err |-> "", doc |-> Some(doc)]

Err(e) == [kind |-> "Err", err |-> e, doc |-> None]

\* What the handling of one event decides: go on in the same frame
\* ("loop"), call read_content or skip_content, or leave with an error.
Step(then, err, res, c) == [then |-> then, err |-> err, result |-> res, cursor |-> c]

NoCursor == Cursor("", DataFileRef)

\* read_all, the Event::Start arm
read_all_Start_Lenient(res, e, isStrict) ==
    IF e.tag = "datafile"
    THEN LET doc == GetOrInsertWith(res, DataFileDefault)[1]
             c == Cursor("datafile", DataFileRef)
             a == apply_attrs(doc, c, e.attrs, isStrict)
         IN  IF a.err # "" THEN Step("return", a.err, Some(a.doc), NoCursor)
             ELSE Step("read_content", "", Some(a.doc), c)
    ELSE Step("skip_content", "", res, NoCursor)

read_all_Start_FreshRoot(res, e, isStrict) ==
    IF e.tag = "datafile"
    THEN LET doc == DataFileDefault
             c == Cursor("datafile", DataFileRef)
             a == apply_attrs(doc, c, e.attrs, isStrict)
         IN  IF a.err # "" THEN Step("return", a.err, Some(a.doc), NoCursor)
             ELSE Step("read_content", "", Some(a.doc), c)
    ELSE IF isStrict THEN Step("return", "UnexpectedElement", res, NoCursor)
    ELSE Step("skip_content", "", res, NoCursor)

read_all_Start(res, e, isStrict) ==
    IF e.tag = "datafile"
    THEN LET doc == GetOrInsertWith(res, DataFileDefault)[1]
             c == Cursor("datafile", DataFileRef)
             a == apply_attrs(doc, c, e.attrs, isStrict)
         IN  IF a.err # "" THEN Step("return", a.err, Some(a.doc), NoCursor)
             ELSE Step("read_content", "", Some(a.doc), c)
    ELSE IF isStrict THEN Step("return", "UnexpectedElement", res, NoCursor)
    ELSE Step("skip_content", "", res, NoCursor)

\* read_all, the Event::Eof arm: result.ok_or_else(..)
read_all_Eof_OrDefault(res) ==
    IF IsSome(res) THEN Ok(res[1]) ELSE Ok(DataFileDefault)

read_all_Eof(res) ==
    IF IsSome(res) THEN Ok(res[1]) ELSE Err("Xml")

\* read_content, the Event::Start arm
read_content_Start_AlwaysStrict(res, cursor, e, isStrict) ==
    LET ch == child(res[1], cursor.ref, e.tag)
        a == apply_attrs(ch.doc, ch.cursor, e.attrs, isStrict)
    IN  IF ch.found
        THEN IF a.err # "" THEN Step("return", a.err, Some(a.doc), NoCursor)
             ELSE Step("read_content", "", Some(a.doc), ch.cursor)
        ELSE Step("return", "UnexpectedElement", res, NoCursor)

read_content_Start(res, cursor, e, isStrict) ==
    LET ch == child(res[1], cursor.ref, e.tag)
        a == apply_attrs(ch.doc, ch.cursor, e.attrs, isStrict)
    IN  IF ch.found
        THEN IF a.err # "" THEN Step("return", a.err, Some(a.doc), NoCursor)
             ELSE Step("read_content", "", Some(a.doc), ch.cursor)
        ELSE IF isStrict THEN Step("return", "UnexpectedElement", res, NoCursor)
        ELSE Step("skip_content", "", res, NoCursor)

\* read_content, the Event::Text / Event::CData arm
read_content_Text_Fallible(res, cursor, e) ==
    LET buf == content(cursor.ref)
    IN  IF ~e.ok THEN Step("return", "Xml", res, NoCursor)
        ELSE IF IsSome(buf)
        THEN Step("loop", "",
                  Some(WriteString(res[1], buf[1],
                                   ReadString(res[1], buf[1]) \o e.text)),
                  cursor)
        ELSE Step("loop", "", res, cursor)

read_content_Text_Overwrite(res, cursor, e) ==
    LET buf == content(cursor.ref)
    IN  IF IsSome(buf)
        THEN IF ~e.ok THEN Step("return", "Xml", res, NoCursor)
             ELSE Step("loop", "", Some(WriteString(res[1], buf[1], e.text)),
                       cursor)
        ELSE Step("loop", "", res, cursor)

read_content_Text(res, cursor, e) ==
    LET buf == content(cursor.ref)
    IN  IF IsSome(buf)
        THEN IF ~e.ok THEN Step("return", "Xml", res, NoCursor)
             ELSE Step("loop", "",
                       Some(WriteString(res[1], buf[1],
                                        ReadString(res[1], buf[1]) \o e.text)),
                       cursor)
        ELSE Step("loop", "", res, cursor)

\* skip_content, one turn of the loop: the level afterwards and whether the
\* loop breaks with Ok(())
skip_content_Step_Flat(level, e) ==
    CASE e.type = "Start" -> [level |-> level, break |-> FALSE]
      [] e.type = "End"   -> [level |-> level - 1, break |-> level - 1 = 0]
      [] e.type = "Eof"   -> [level |-> level, break |-> TRUE]
      [] OTHER            -> [level |-> level, break |-> FALSE]

skip_content_Step_Late(level, e) ==
    CASE e.type = "Start" -> [level |-> level + 1, break |-> FALSE]
      [] e.type = "End"   -> [level |-> level - 1, break |-> level - 1 < 0]
      [] e.type = "Eof"   -> [level |-> level, break |-> TRUE]
      [] OTHER            -> [level |-> level, break |-> FALSE]

skip_content_Step_PastEof(level, e) ==
    CASE e.type = "Start" -> [level |-> level + 1, break |-> FALSE]
      [] e.type = "End"   -> [level |-> level - 1, break |-> level - 1 = 0]
      [] OTHER            -> [level |-> level, break |-> FALSE]

skip_content_Step(level, e) ==
    CASE e.type = "Start" -> [level |-> level + 1, break |-> FALSE]
      [] e.type = "End"   -> [level |-> level - 1, break |-> level - 1 = 0]
      [] e.type = "Eof"   -> [level |-> level, break |-> TRUE]
      [] OTHER            -> [level |-> level, break |-> FALSE]

----------------------------------------------------------------------------
(* The state machine *)

Init ==
    /\ pc = "ready"
    /\ strict = TRUE
    /\ result = None
    /\ stack = <<>>
    /\ ret = None
    /\ seen = <<>>
    /\ profile \in Profiles
    /\ field = [type |-> "String", val |-> ""]
    /\ applied = None

InReadAll == pc = "running" /\ stack = <<>>

InReadContent == pc = "running" /\ stack # <<>> /\ Last(stack).fn = "read_content"

InSkipContent == pc = "running" /\ stack # <<>> /\ Last(stack).fn = "skip_content"

\* the next event is read
Read(e) == e \in NextEvents(seen, profile) /\ seen' = Append(seen, e)

\* read_all returns; `?` and `break Err(..)` leave every open frame, and
\* the local tree is moved out or dropped
Return(r) ==
    /\ pc' = "done"
    /\ ret' = Some(r)
    /\ stack' = <<>>
    /\ result' = None

\* a handler's decision takes effect in the frames `below` the call
Take(step, below) ==
    CASE step.then = "return" -> Return(Err(step.err))
      [] step.then = "read_content" ->
            /\ result' = step.result
            /\ stack' = Append(below, ReadContentFrame(step.cursor))
            /\ UNCHANGED <<pc, ret>>
      [] step.then = "skip_content" ->
            /\ result' = step.result
            /\ stack' = Append(below, SkipContentFrame(1))
            /\ UNCHANGED <<pc, ret>>
      [] step.then = "loop" ->
            /\ result' = step.result
            /\ stack' = below
            /\ UNCHANGED <<pc, ret>>

SetStrict(b) ==
    /\ pc = "ready"
    /\ strict' = b
    /\ UNCHANGED <<pc, result, stack, ret, seen, profile, field, applied>>

ReadAll_ResetsStrict ==
    /\ pc = "ready"
    /\ pc' = "running"
    /\ result' = None
    /\ strict' = TRUE
    /\ UNCHANGED <<stack, ret, seen, profile, field, applied>>

ReadAll ==
    /\ pc = "ready"
    /\ pc' = "running"
    /\ result' = None
    /\ UNCHANGED <<strict, stack, ret, seen, profile, field, applied>>

ReadAllStart ==
    /\ InReadAll
    /\ \E e \in NextEvents(seen, profile) :
          /\ e.type = "Start"
          /\ Read(e)
          /\ Take(read_all_Start(result, e, strict), stack)
    /\ UNCHANGED <<strict, profile, field, applied>>

ReadAllEof ==
    /\ InReadAll
    /\ Read(EofEv)
    /\ Return(read_all_Eof(result))
    /\ UNCHANGED <<strict, profile, field, applied>>

ReadAllOther ==
    /\ InReadAll
    /\ \E e \in NextEvents(seen, profile) :
          /\ e.type \in {"Text", "CData", "End", "Other"}
          /\ Read(e)
    /\ UNCHANGED <<pc, strict, result, stack, ret, profile, field, applied>>

ReadAllFail ==
    /\ InReadAll
    /\ Read(FailEv)
    /\ Return(Err("Xml"))
    /\ UNCHANGED <<strict, profile, field, applied>>

ReadContentStart ==
    /\ InReadContent
    /\ \E e \in NextEvents(seen, profile) :
          /\ e.type = "Start"
          /\ Read(e)
          /\ Take(read_content_Start(result, Last(stack).cursor, e, strict), stack)
    /\ UNCHANGED <<strict, profile, field, applied>>

ReadContentText ==
    /\ InReadContent
    /\ \E e \in NextEvents(seen, profile) :
          /\ e.type \in {"Text", "CData"}
          /\ Read(e)
          /\ Take(read_content_Text(result, Last(stack).cursor, e), stack)
    /\ UNCHANGED <<strict, profile, field, applied>>

ReadContentEnd_Ignored ==
    /\ InReadContent
    /\ Read(EndEv)
    /\ UNCHANGED <<pc, strict, result, stack, ret, profile, field, applied>>

ReadContentEnd ==
    /\ InReadContent
    /\ Read(EndEv)
    /\ stack' = Front(stack)
    /\ UNCHANGED <<pc, strict, result, ret, profile, field, applied>>

ReadContentEof ==
    /\ InReadContent
    /\ Read(EofEv)
    /\ Return(Err("Xml"))
    /\ UNCHANGED <<strict, profile, field, applied>>

ReadContentOther ==
    /\ InReadContent
    /\ Read(OtherEv)
    /\ UNCHANGED <<pc, strict, result, stack, ret, profile, field, applied>>

ReadContentFail ==
    /\ InReadContent
    /\ Read(FailEv)
    /\ Return(Err("Xml"))
    /\ UNCHANGED <<strict, profile, field, applied>>

\* every arm of skip_content's loop but the failing read
SkipContent ==
    /\ InSkipContent
    /\ \E e \in NextEvents(seen, profile) :
          /\ e.type # "Fail"
          /\ Read(e)
          /\ LET s == skip_content_Step(Last(stack).level, e)
             IN  stack' = IF s.break THEN Front(stack)
                          ELSE Append(Front(stack), SkipContentFrame(s.level))
    /\ UNCHANGED <<pc, strict, result, ret, profile, field, applied>>

SkipContentFail ==
    /\ InSkipContent
    /\ Read(FailEv)
    /\ Return(Err("Xml"))
    /\ UNCHANGED <<strict, profile, field, applied>>

Next ==
    \/ \E b \in BOOLEAN : SetStrict(b)
    \/ ReadAll
    \/ ReadAllStart
    \/ ReadAllEof
    \/ ReadAllOther
    \/ ReadAllFail
    \/ ReadContentStart
    \/ ReadContentText
    \/ ReadContentEnd
    \/ ReadContentEof
    \/ ReadContentOther
    \/ ReadContentFail
    \/ SkipContent
    \/ SkipContentFail

Spec == Init /\ [][Next]_vars

----------------------------------------------------------------------------
(* The coercion specification: one attribute target of any type, holding   *)
(* any value of that type, and set_from_str applied to it with any token.  *)

FieldTypes ==
    {"String", "bool", "ForceMerging", "ForceNoDump", "ForcePacking",
     "RomMode", "SampleMode", "Status"}

ValuesOf(type) ==
    CASE type = "String"       -> {"", "old"}
      [] type = "bool"         -> BOOLEAN
      [] type = "ForceMerging" -> ForceMergingVariants
      [] type = "ForceNoDump"  -> ForceNoDumpVariants
      [] type = "ForcePacking" -> ForcePackingVariants
      [] type = "RomMode"      -> RomModeVariants
      [] type = "SampleMode"   -> SampleModeVariants
      [] type = "Status"       -> StatusVariants

AttrTokens ==
    {"yes", "no", "maybe", "Yes", "NO", "true", "1", "",
     "none", "split", "full", "obsolete", "required", "ignore", "zip",
     "unzip", "merged", "unmerged", "baddump", "nodump", "good", "verified",
     "Good", "None", "Split", "text"}

InitAttr ==
    /\ pc = "ready"
    /\ strict = TRUE
    /\ result = None
    /\ stack = <<>>
    /\ ret = None
    /\ seen = <<>>
    /\ profile = "games"
    /\ \E type \in FieldTypes : \E v \in ValuesOf(type) :
          field = [type |-> type, val |-> v]
    /\ applied = None

SetFromStr ==
    /\ \E value \in AttrTokens :
          LET out == set_from_str(field.type, field.val, value)
          IN  /\ field' = [field EXCEPT !.val = out.val]
              /\ applied' = Some([value |-> value, old |-> field.val, ok |-> out.ok])
    /\ UNCHANGED <<pc, strict, result, stack, ret, seen, profile>>

NextAttr == SetFromStr

SpecAttr == InitAttr /\ [][NextAttr]_vars

----------------------------------------------------------------------------
(* The parser over the documents of the other vocabularies *)

InitOver(profiles) ==
    /\ pc = "ready"
    /\ strict = TRUE
    /\ result = None
    /\ stack = <<>>
    /\ ret = None
    /\ seen = <<>>
    /\ profile \in profiles
    /\ field = [type |-> "String", val |-> ""]
    /\ applied = None

InitChildren == InitOver(ChildProfiles)

SpecChildren == InitChildren /\ [][Next]_vars

InitNesting == InitOver(NestingProfiles)

SpecNesting == InitNesting /\ [][Next]_vars

InitLeaves == InitOver(LeafProfiles)

SpecLeaves == InitLeaves /\ [][Next]_vars

\* A parse that has started goes on: read_all runs its loops without
\* waiting for anything but the token source, which always answers.
ParseStep ==
    \/ ReadAllStart
    \/ ReadAllEof
    \/ ReadAllOther
    \/ ReadAllFail
    \/ ReadContentStart
    \/ ReadContentText
    \/ ReadContentEnd
    \/ ReadContentEof
    \/ ReadContentOther
    \/ ReadContentFail
    \/ SkipContent
    \/ SkipContentFail

InitLive == InitOver(LiveProfiles)

SpecLive == InitLive /\ [][Next]_vars /\ WF_vars(ParseStep)

InitText == InitOver(TextProfiles)

SpecText == InitText /\ [][Next]_vars

----------------------------------------------------------------------------
(* What the claims speak about, read off the document prefix `seen`        *)

Running == pc = "running"

Returned == pc = "done" /\ IsSome(ret)

ReturnedOk == Returned /\ ret[1].kind = "Ok"

ReturnedErr(e) == Returned /\ ret[1] = [kind |-> "Err", err |-> e, doc |-> None]

\* the tree at this point: the one under construction, or the one returned
Tree == IF Running THEN result ELSE IF ReturnedOk THEN ret[1].doc ELSE None

\* the Start events named `tag` in s that open directly inside the
\* elements `open` (outermost first), in document order
RECURSIVE StartsAt(_, _, _)
StartsAt(s, open, tag) ==
    IF s = <<>> THEN <<>>
    ELSE LET rest == StartsAt(Front(s), open, tag)
             e == Last(s)
         IN  IF e.type = "Start" /\ e.tag = tag /\ OpenTags(Front(s)) = open
             THEN Append(rest, e)
             ELSE rest

\* the value a Start event gives to an attribute, or `absent`
AttrValue(e, key, absent) ==
    IF \E i \in 1..Len(e.attrs) : e.attrs[i].ok /\ e.attrs[i].key = key
    THEN LET i == CHOOSE j \in 1..Len(e.attrs) : e.attrs[j].ok /\ e.attrs[j].key = key
         IN  e.attrs[i].value
    ELSE absent

HasAttr(e, key) == \E i \in 1..Len(e.attrs) : e.attrs[i].ok /\ e.attrs[i].key = key

Map(s, Op(_)) == [i \in 1..Len(s) |-> Op(s[i])]

RECURSIVE Flatten(_)
Flatten(ss) == IF ss = <<>> THEN <<>> ELSE Head(ss) \o Flatten(Tail(ss))

RootSeen == StartsAt(seen, <<>>, "datafile") # <<>>

LastIsStart == seen # <<>> /\ Last(seen).type = "Start"

\* the last event read is a Start tag named `tag` directly inside `open`
LastIsStartAt(open, tag) ==
    LastIsStart /\ Last(seen).tag = tag /\ OpenTags(Front(seen)) = open

SourceFileOfTag(e) == AttrValue(e, "sourcefile", "")

SourceFileOfGame(g) == g.source_file

RECURSIVE AllStarts(_, _)
AllStarts(s, tag) ==
    IF s = <<>> THEN <<>>
    ELSE IF Last(s).type = "Start" /\ Last(s).tag = tag
         THEN Append(AllStarts(Front(s), tag), Last(s))
         ELSE AllStarts(Front(s), tag)

----------------------------------------------------------------------------
(* Claims *)

\* C1 as stated: a document read_all accepts yields one entry of games per
\* <game> start tag of the input, wherever the tag stands, in input order
\* (entries and tags are matched by their sourcefile).
C1_GamePerGameTag ==
    ReturnedOk =>
        Map(ret[1].doc[1].games, SourceFileOfGame)
            = Map(AllStarts(seen, "game"), SourceFileOfTag)

\* C1, amended: a document read_all accepts yields one entry of games per
\* <game> start tag that is a direct child of a top-level <datafile>, in
\* input order; a <game> anywhere else adds no entry.
C1_GamePerRootChild ==
    ReturnedOk =>
        Map(ret[1].doc[1].games, SourceFileOfGame)
            = Map(StartsAt(seen, <<"datafile">>, "game"), SourceFileOfTag)

C1_Witness ==
    /\ ReturnedOk
    /\ Len(ret[1].doc[1].games) = 2
    /\ ret[1].doc[1].games[1].source_file = "a"
    /\ ret[1].doc[1].games[2].source_file = "b"

\* the tags Game::child resolves
GameChildTags ==
    {"name", "description", "comment", "year", "manufacturer", "release",
     "biosset", "rom", "disk", "sample", "archive"}

\* C2: in strict mode a top-level start tag other than datafile, and a start
\* tag inside a game that is no child of game, end read_all with an
\* UnexpectedElement error.
C2_StrictUnexpectedElement ==
    (/\ strict
     /\ LastIsStart
     /\ \/ OpenTags(Front(seen)) = <<>> /\ Last(seen).tag # "datafile"
        \/ /\ OpenTags(Front(seen)) = <<"datafile", "game">>
           /\ Last(seen).tag \notin GameChildTags)
    => ReturnedErr("UnexpectedElement")

C2_Witness ==
    /\ strict
    /\ LastIsStartAt(<<"datafile", "game">>, "bogus")
    /\ ReturnedErr("UnexpectedElement")

\* the nestings of elements the schema knows, outermost first
SchemaPath(open) ==
    \/ open \in {<<>>, <<"datafile">>, <<"datafile", "header">>, <<"datafile", "game">>}
    \/ /\ Len(open) = 3
       /\ \/ /\ SubSeq(open, 1, 2) = <<"datafile", "header">>
             /\ open[3] \in {"name", "description", "category", "version",
                             "date", "author", "email", "homepage", "url",
                             "comment", "clrmamepro", "romcenter"}
          \/ /\ SubSeq(open, 1, 2) = <<"datafile", "game">>
             /\ open[3] \in GameChildTags

TotalRoms(doc) == Len(Flatten(Map(doc.games, LAMBDA g : g.roms)))

\* C3: in lenient mode a document that is complete (every element closed, a
\* top-level datafile present) is parsed successfully whatever unknown
\* elements it holds; the roms of the tree are the rom tags that are direct
\* children of a game of the root, so a rom inside an unrecognized wrapper
\* adds none; and while an unrecognized element is open no event changes
\* the tree.
C3_LenientSkipsSubtree ==
    /\ [](~strict =>
            /\ (pc = "done" /\ AtEof(seen) /\ OpenTags(seen) = <<>> /\ RootSeen)
                   => ReturnedOk
            /\ IsSome(Tree)
                   => TotalRoms(Tree[1])
                         = Len(StartsAt(seen, <<"datafile", "game">>, "rom")))
    /\ [][(~strict /\ Running /\ ~SchemaPath(OpenTags(seen)) /\ pc' = "running")
             => result' = result]_vars

C3_Witness ==
    /\ ~strict
    /\ Running
    /\ OpenTags(seen) = <<"datafile", "game">>
    /\ StartsAt(seen, <<"datafile", "game", "bogus">>, "rom") # <<>>
    /\ result[1].games[1].roms = <<>>

\* C4: when end-of-input arrives while an element is open, skipped elements
\* included, read_all returns an error.
C4_EofInsideElementIsError ==
    (pc = "done" /\ AtEof(seen) /\ OpenTags(seen) # <<>>) => ~ReturnedOk

\* C5: read_all returns Ok only if a top-level datafile start tag was
\* consumed; end-of-input without one is the Xml error.
C5_NoRootIsError ==
    /\ ReturnedOk => RootSeen
    /\ (pc = "done" /\ AtEof(seen) /\ ~RootSeen) => ReturnedErr("Xml")

C5_Witness ==
    /\ ~strict
    /\ ReturnedErr("Xml")
    /\ AtEof(seen)
    /\ OpenTags(seen) = <<>>
    /\ StartsAt(seen, <<>>, "bogus") # <<>>

\* a fatal condition at event i of s: a token failure, or end-of-input
\* inside an open element
FatalAt(s, i) ==
    \/ s[i].type = "Fail"
    \/ s[i].type = "Eof" /\ OpenTags(SubSeq(s, 1, i - 1)) # <<>>

\* C6: read_all ends with a document or with one error, and once a fatal
\* condition was met it is the error: no tree is returned.
C6_FatalMeansError ==
    Returned =>
        /\ ret[1].kind \in {"Ok", "Err"}
        /\ ret[1].kind = "Ok" <=> IsSome(ret[1].doc)
        /\ (\E i \in 1..Len(seen) : FatalAt(seen, i))
               => ret[1].kind = "Err" /\ ret[1].doc = None

\* the attributes the schema gives game and datafile, and those among them
\* whose value is yes/no
GameAttrKeys ==
    {"id", "name", "sourcefile", "isbios", "cloneof", "cloneofid", "romof",
     "sampleof", "board", "rebuildto"}

DataFileAttrKeys == {"build", "debug"}

\* attribute a of a start tag with these keys is one apply_attrs cannot set
Unsettable(a, keys, flags) ==
    \/ a.key \notin keys
    \/ a.key \in flags /\ a.value \notin {"yes", "no"}

\* the first attribute of e that is not set is an unsettable one (and not
\* one the tokenizer failed on)
FirstBadIsUnsettable(e, keys, flags) ==
    \E i \in 1..Len(e.attrs) :
        /\ e.attrs[i].ok /\ Unsettable(e.attrs[i], keys, flags)
        /\ \A j \in 1..(i - 1) :
              e.attrs[j].ok /\ ~Unsettable(e.attrs[j], keys, flags)

AllAttrsDelivered(e) == \A i \in 1..Len(e.attrs) : e.attrs[i].ok

\* the debug flag after the top-level datafile tags `tags`: the value of
\* the last yes/no among their debug attributes, false when there is none
RECURSIVE DebugAfter(_)
DebugAfter(tags) ==
    IF tags = <<>> THEN FALSE
    ELSE LET v == AttrValue(Last(tags), "debug", "")
         IN  IF v = "yes" THEN TRUE
             ELSE IF v = "no" THEN FALSE
             ELSE DebugAfter(Front(tags))

\* C7: an attribute that does not resolve or whose value fails coercion
\* aborts a strict parse with UnexpectedAttribute; a lenient parse goes on,
\* the targeted field keeps its value and the later attributes of the tag
\* are applied.  isbios="yes" sets is_bios, isbios="maybe" leaves it false.
C7_UnsettableAttribute ==
    /\ (strict /\ LastIsStartAt(<<"datafile">>, "game")
          /\ FirstBadIsUnsettable(Last(seen), GameAttrKeys, {"isbios"}))
       => ReturnedErr("UnexpectedAttribute")
    /\ (strict /\ LastIsStartAt(<<>>, "datafile")
          /\ FirstBadIsUnsettable(Last(seen), DataFileAttrKeys, {"debug"}))
       => ReturnedErr("UnexpectedAttribute")
    /\ (~strict /\ LastIsStartAt(<<"datafile">>, "game")
          /\ AllAttrsDelivered(Last(seen)))
       => /\ Running
          /\ Last(result[1].games).is_bios
                = (AttrValue(Last(seen), "isbios", "no") = "yes")
          /\ Last(result[1].games).source_file
                = AttrValue(Last(seen), "sourcefile", "")
    /\ (Running /\ LastIsStartAt(<<"datafile">>, "game"))
       => Last(result[1].games).is_bios
             = (AttrValue(Last(seen), "isbios", "no") = "yes")
    /\ IsSome(Tree) => Tree[1].debug = DebugAfter(StartsAt(seen, <<>>, "datafile"))
    /\ (~strict /\ Running /\ LastIsStartAt(<<>>, "datafile")
          /\ AllAttrsDelivered(Last(seen)))
       => result[1].build = AttrValue(Last(seen), "build", result[1].build)

C7_Witness ==
    /\ ~strict
    /\ Running
    /\ LastIsStartAt(<<"datafile">>, "game")
    /\ AttrValue(Last(seen), "isbios", "") = "maybe"
    /\ Last(result[1].games).is_bios = FALSE
    /\ Last(result[1].games).source_file = "a"

\* the tokens of each enumeration and the variant each names
EnumTokens ==
    {<<"ForceMerging", "none", "None">>, <<"ForceMerging", "split", "Split">>,
     <<"ForceMerging", "full", "Full">>,
     <<"ForceNoDump", "obsolete", "Obsolete">>,
     <<"ForceNoDump", "required", "Required">>,
     <<"ForceNoDump", "ignore", "Ignore">>,
     <<"ForcePacking", "zip", "Zip">>, <<"ForcePacking", "unzip", "Unzip">>,
     <<"RomMode", "merged", "Merged">>, <<"RomMode", "split", "Split">>,
     <<"RomMode", "unmerged", "Unmerged">>,
     <<"SampleMode", "merged", "Merged">>,
     <<"SampleMode", "unmerged", "Unmerged">>,
     <<"Status", "baddump", "BadDump">>, <<"Status", "nodump", "NoDump">>,
     <<"Status", "good", "Good">>, <<"Status", "verified", "Verified">>}

\* C8: set_from_str succeeds on a bool exactly for "yes" (true) and "no"
\* (false), on an enumeration exactly for its tokens, each giving its
\* variant; any other text fails and leaves the field as it was.  On a
\* String it always succeeds and the field is the attribute value.
C8_Coercion ==
    IsSome(applied) =>
        LET a == applied[1]
        IN  CASE field.type = "String" -> a.ok /\ field.val = a.value
              [] field.type = "bool" ->
                    /\ a.ok <=> a.value \in {"yes", "no"}
                    /\ a.value = "yes" => field.val = TRUE
                    /\ a.value = "no" => field.val = FALSE
                    /\ ~a.ok => field.val = a.old
              [] OTHER ->
                    /\ a.ok <=> \E t \in EnumTokens :
                                   t[1] = field.type /\ t[2] = a.value
                    /\ \A t \in EnumTokens :
                          (t[1] = field.type /\ t[2] = a.value)
                              => field.val = t[3]
                    /\ ~a.ok => field.val = a.old

C8_Witness ==
    /\ IsSome(applied)
    /\ field.type = "bool"
    /\ applied[1].value = "maybe"
    /\ applied[1].old = TRUE
    /\ ~applied[1].ok
    /\ field.val = TRUE

StatusOfTag(e) ==
    LET v == AttrValue(e, "status", "")
    IN  CASE v = "baddump"  -> "BadDump"
          [] v = "nodump"   -> "NoDump"
          [] v = "verified" -> "Verified"
          [] OTHER          -> "Good"

StatusOfItem(x) == x.status

AllRoms(doc) == Flatten(Map(doc.games, LAMBDA g : g.roms))

AllDisks(doc) == Flatten(Map(doc.games, LAMBDA g : g.disks))

NoTagSets(open, tag, key) ==
    \A i \in 1..Len(StartsAt(seen, open, tag)) :
        ~HasAttr(StartsAt(seen, open, tag)[i], key)

\* C9: a field no attribute set holds its type default: Status Good for a
\* rom or disk; Split / Obsolete / Zip for a clrmamepro; Split, Split,
\* Merged and three false lock flags for a romcenter.  Every enumeration
\* field holds one of its variants.
C9_Defaults ==
    IsSome(Tree) =>
        LET doc == Tree[1]
            hdr == doc.header
            hp == <<"datafile", "header">>
        IN  /\ Map(AllRoms(doc), StatusOfItem)
                 = Map(StartsAt(seen, <<"datafile", "game">>, "rom"), StatusOfTag)
            /\ Map(AllDisks(doc), StatusOfItem)
                 = Map(StartsAt(seen, <<"datafile", "game">>, "disk"), StatusOfTag)
            /\ (IsSome(hdr) /\ IsSome(hdr[1].clr_mame_pro)) =>
                  LET c == hdr[1].clr_mame_pro[1]
                  IN  /\ c.force_merging \in {"None", "Split", "Full"}
                      /\ c.force_no_dump \in {"Obsolete", "Required", "Ignore"}
                      /\ c.force_packing \in {"Zip", "Unzip"}
                      /\ NoTagSets(hp, "clrmamepro", "forcemerging")
                            => c.force_merging = "Split"
                      /\ NoTagSets(hp, "clrmamepro", "forcenodump")
                            => c.force_no_dump = "Obsolete"
                      /\ NoTagSets(hp, "clrmamepro", "forcepacking")
                            => c.force_packing = "Zip"
            /\ (IsSome(hdr) /\ IsSome(hdr[1].rom_center)) =>
                  LET r == hdr[1].rom_center[1]
                  IN  /\ r.rom_mode \in {"Merged", "Split", "Unmerged"}
                      /\ r.bios_mode \in {"Merged", "Split", "Unmerged"}
                      /\ r.sample_mode \in {"Merged", "Unmerged"}
                      /\ NoTagSets(hp, "romcenter", "rommode")
                            => r.rom_mode = "Split"
                      /\ NoTagSets(hp, "romcenter", "biosmode")
                            => r.bios_mode = "Split"
                      /\ NoTagSets(hp, "romcenter", "samplemode")
                            => r.sample_mode = "Merged"
                      /\ NoTagSets(hp, "romcenter", "lockrommode")
                            => r.lock_rom_mode = FALSE
                      /\ NoTagSets(hp, "romcenter", "lockbiosmode")
                            => r.lock_bios_mode = FALSE
                      /\ NoTagSets(hp, "romcenter", "locksamplemode")
                            => r.lock_sample_mode = FALSE
            /\ \A i \in 1..Len(AllRoms(doc)) :
                  AllRoms(doc)[i].status \in {"BadDump", "NoDump", "Good", "Verified"}
            /\ \A i \in 1..Len(AllDisks(doc)) :
                  AllDisks(doc)[i].status \in {"BadDump", "NoDump", "Good", "Verified"}

C9_Witness ==
    /\ Running
    /\ LastIsStartAt(<<"datafile", "game">>, "rom")
    /\ ~HasAttr(Last(seen), "status")
    /\ Len(result[1].games[1].roms) = 2
    /\ result[1].games[1].roms[1].status = "Verified"
    /\ result[1].games[1].roms[2].status = "Good"

\* C10: during a parse and in the document returned, header is Some exactly
\* when a header start tag was a direct child of datafile, and clr_mame_pro
\* and rom_center are Some exactly when their start tag was a direct child
\* of header; the tree exists exactly from the first top-level datafile on.
\* A document with neither header nor game has header None and no games.
C10_OptionalParts ==
    /\ Running => (IsSome(result) <=> RootSeen)
    /\ IsSome(Tree) =>
          LET doc == Tree[1]
          IN  /\ IsSome(doc.header)
                    <=> StartsAt(seen, <<"datafile">>, "header") # <<>>
              /\ IsSome(doc.header) =>
                    /\ IsSome(doc.header[1].clr_mame_pro)
                          <=> StartsAt(seen, <<"datafile", "header">>,
                                       "clrmamepro") # <<>>
                    /\ IsSome(doc.header[1].rom_center)
                          <=> StartsAt(seen, <<"datafile", "header">>,
                                       "romcenter") # <<>>
              /\ StartsAt(seen, <<"datafile">>, "game") = <<>>
                    => doc.games = <<>>

C10_Witness ==
    /\ ReturnedOk
    /\ Len(seen) = 3
    /\ ret[1].doc[1].header = None
    /\ ret[1].doc[1].games = <<>>

\* the repeatable children of a game, the sequence each one grows and the
\* value a new element starts from
RepeatableTags ==
    {"comment", "release", "biosset", "rom", "disk", "sample", "archive"}

RepeatableVec(tag) ==
    CASE tag = "comment" -> "comments"
      [] tag = "release" -> "releases"
      [] tag = "biosset" -> "bios_sets"
      [] tag = "rom"     -> "roms"
      [] tag = "disk"    -> "disks"
      [] tag = "sample"  -> "samples"
      [] tag = "archive" -> "archives"

RepeatableDefault(tag) ==
    CASE tag = "comment" -> ""
      [] tag = "release" -> ReleaseDefault
      [] tag = "biosset" -> BiosSetDefault
      [] tag = "rom"     -> RomDefault
      [] tag = "disk"    -> DiskDefault
      [] tag = "sample"  -> SampleDefault
      [] tag = "archive" -> ArchiveDefault

\* `open` lies inside a game of the root
InsideGame(open) ==
    Len(open) >= 2 /\ SubSeq(open, 1, 2) = <<"datafile", "game">>

\* C11: a start tag of a repeatable child that resolves (game in datafile;
\* comment, release, biosset, rom, disk, sample, archive in game) appends
\* one element to its sequence and changes nothing else of the tree; the
\* element is the default one when the tag has no attributes, and the new
\* frame's cursor is bound to it.  While a game is open only the last game
\* changes, and while a repeatable child of it is open only the last element
\* of that child's sequence changes.
C11_AppendsOne ==
    [][(Running /\ pc' = "running" /\ seen' # seen) =>
          LET e == Last(seen')
              open == OpenTags(seen)
              doc == result[1]
              new == result'[1]
              g == Len(doc.games)
          IN  /\ (e.type = "Start" /\ e.tag = "game" /\ open = <<"datafile">>) =>
                    /\ new = [doc EXCEPT !.games = Append(@, Last(new.games))]
                    /\ e.attrs = <<>> => Last(new.games) = GameDefault
                    /\ Last(stack').cursor.ref.kind = "Game"
                    /\ Last(stack').cursor.ref.g = Len(new.games)
              /\ (e.type = "Start" /\ e.tag \in RepeatableTags
                    /\ open = <<"datafile", "game">>) =>
                    LET v == RepeatableVec(e.tag)
                    IN  /\ new = [doc EXCEPT
                                    !.games[g][v] = Append(@, Last(new.games[g][v]))]
                        /\ e.attrs = <<>>
                              => Last(new.games[g][v]) = RepeatableDefault(e.tag)
                        /\ Last(stack').cursor.ref.g = g
                        /\ Last(stack').cursor.ref.i = Len(new.games[g][v])
              /\ InsideGame(open) =>
                    new = [doc EXCEPT !.games[g] = new.games[g]]
              /\ (InsideGame(open) /\ Len(open) >= 3 /\ open[3] \in RepeatableTags) =>
                    LET v == RepeatableVec(open[3])
                        n == Len(doc.games[g][v])
                    IN  new = [doc EXCEPT !.games[g][v][n] = new.games[g][v][n]]
       ]_vars

C11_Witness ==
    /\ Running
    /\ LastIsStartAt(<<"datafile", "game">>, "release")
    /\ Len(result[1].games) = 1
    /\ Len(result[1].games[1].releases) = 2
    /\ result[1].games[1].releases[1].name = "r1"
    /\ result[1].games[1].releases[2].name = "r2"
    /\ Last(stack).cursor.ref.i = 2

\* the last value among the attributes `key` of the start tags `tags` that
\* is one of `tokens`, "" when there is none
RECURSIVE LastToken(_, _, _)
LastToken(tags, key, tokens) ==
    IF tags = <<>> THEN ""
    ELSE LET v == AttrValue(Last(tags), key, "")
         IN  IF v \in tokens THEN v ELSE LastToken(Front(tags), key, tokens)

\* the variant a token names; the default when no token was given
ForceMergingOf(v) ==
    CASE v = "none" -> "None" [] v = "full" -> "Full" [] OTHER -> "Split"

RomModeOf(v) ==
    CASE v = "merged" -> "Merged" [] v = "unmerged" -> "Unmerged"
      [] OTHER -> "Split"

YesOf(v) == v = "yes"

\* C12: a second header, clrmamepro or romcenter start tag in the same
\* parent continues the instance the first one created: a field holds the
\* value the last tag that set it gave, whatever tags of the element came
\* after, and is never put back to its default; a repeated header tag
\* leaves the whole tree as it was and binds the cursor to the header.
C12_SingletonsContinue ==
    /\ [](IsSome(Tree) =>
            LET hdr == Tree[1].header
                hp == <<"datafile", "header">>
            IN  /\ (IsSome(hdr) /\ IsSome(hdr[1].clr_mame_pro)) =>
                      hdr[1].clr_mame_pro[1].force_merging
                         = ForceMergingOf(LastToken(StartsAt(seen, hp, "clrmamepro"),
                                                    "forcemerging",
                                                    {"none", "split", "full"}))
                /\ (IsSome(hdr) /\ IsSome(hdr[1].rom_center)) =>
                      /\ hdr[1].rom_center[1].bios_mode
                            = RomModeOf(LastToken(StartsAt(seen, hp, "romcenter"),
                                                  "biosmode",
                                                  {"merged", "split", "unmerged"}))
                      /\ hdr[1].rom_center[1].lock_rom_mode
                            = YesOf(LastToken(StartsAt(seen, hp, "romcenter"),
                                              "lockrommode", {"yes", "no"})))
    /\ [][(/\ Running /\ pc' = "running" /\ seen' # seen
            /\ Last(seen').type = "Start" /\ Last(seen').tag = "header"
            /\ OpenTags(seen) = <<"datafile">>
            /\ IsSome(result[1].header))
           => /\ result' = result
              /\ Last(stack').cursor.ref.kind = "Header"]_vars

C12_Witness ==
    /\ Running
    /\ LastIsStartAt(<<"datafile">>, "header")
    /\ Len(StartsAt(seen, <<"datafile">>, "header")) = 2
    /\ result[1].header[1].clr_mame_pro # None
    /\ result[1].header[1].clr_mame_pro[1].force_merging = "Full"

\* What the schema says a start tag makes of an element: each attribute
\* goes to the field of its name, a yes/no or enumeration attribute only
\* when its value is one of the tokens, and every other field is left.
StrOf(e, key, prev) == AttrValue(e, key, prev)

FlagOf(e, key, prev) ==
    IF AttrValue(e, key, "") \in {"yes", "no"}
    THEN AttrValue(e, key, "") = "yes" ELSE prev

RomModeOfTag(e, key, prev) ==
    IF AttrValue(e, key, "") \in {"merged", "split", "unmerged"}
    THEN RomModeOf(AttrValue(e, key, "")) ELSE prev

SampleModeOfTag(e, key, prev) ==
    CASE AttrValue(e, key, "") = "merged"   -> "Merged"
      [] AttrValue(e, key, "") = "unmerged" -> "Unmerged"
      [] OTHER                              -> prev

ReleaseOfTag(e) ==
    [name |-> StrOf(e, "name", ""), region |-> StrOf(e, "region", ""),
     language |-> StrOf(e, "language", ""), date |-> StrOf(e, "date", ""),
     default |-> FlagOf(e, "default", FALSE)]

BiosSetOfTag(e) ==
    [name |-> StrOf(e, "name", ""), description |-> StrOf(e, "description", ""),
     default |-> FlagOf(e, "default", FALSE)]

RomOfTag(e) ==
    [name |-> StrOf(e, "name", ""), size |-> StrOf(e, "size", ""),
     crc |-> StrOf(e, "crc", ""), sha1 |-> StrOf(e, "sha1", ""),
     sha256 |-> StrOf(e, "sha256", ""), md5 |-> StrOf(e, "md5", ""),
     merge |-> StrOf(e, "merge", ""), status |-> StatusOfTag(e),
     date |-> StrOf(e, "date", ""), serial |-> StrOf(e, "serial", "")]

DiskOfTag(e) ==
    [name |-> StrOf(e, "name", ""), sha1 |-> StrOf(e, "sha1", ""),
     md5 |-> StrOf(e, "md5", ""), merge |-> StrOf(e, "merge", ""),
     status |-> StatusOfTag(e)]

NamedOfTag(e) == [name |-> StrOf(e, "name", "")]

ItemOfTag(e) ==
    CASE e.tag = "release" -> ReleaseOfTag(e)
      [] e.tag = "biosset" -> BiosSetOfTag(e)
      [] e.tag = "rom"     -> RomOfTag(e)
      [] e.tag = "disk"    -> DiskOfTag(e)
      [] e.tag = "sample"  -> NamedOfTag(e)
      [] e.tag = "archive" -> NamedOfTag(e)

GameOfTag(e) ==
    [id |-> StrOf(e, "id", ""), name |-> StrOf(e, "name", ""),
     description |-> "", is_bios |-> FlagOf(e, "isbios", FALSE),
     source_file |-> StrOf(e, "sourcefile", ""),
     clone_of |-> StrOf(e, "cloneof", ""),
     clone_of_id |-> StrOf(e, "cloneofid", ""),
     rom_of |-> StrOf(e, "romof", ""), sample_of |-> StrOf(e, "sampleof", ""),
     board |-> StrOf(e, "board", ""), rebuild_to |-> StrOf(e, "rebuildto", ""),
     comments |-> <<>>, year |-> "", manufacturer |-> "", releases |-> <<>>,
     bios_sets |-> <<>>, roms |-> <<>>, disks |-> <<>>, samples |-> <<>>,
     archives |-> <<>>]

RomCenterOfTag(prev, e) ==
    [plugin |-> StrOf(e, "plugin", prev.plugin),
     rom_mode |-> RomModeOfTag(e, "rommode", prev.rom_mode),
     bios_mode |-> RomModeOfTag(e, "biosmode", prev.bios_mode),
     sample_mode |-> SampleModeOfTag(e, "samplemode", prev.sample_mode),
     lock_rom_mode |-> FlagOf(e, "lockrommode", prev.lock_rom_mode),
     lock_bios_mode |-> FlagOf(e, "lockbiosmode", prev.lock_bios_mode),
     lock_sample_mode |-> FlagOf(e, "locksamplemode", prev.lock_sample_mode)]

\* C13: the start tag of an element sets, for each attribute it carries,
\* the field the schema names and nothing else: after the tag of a release,
\* biosset, rom, disk, sample or archive of a game, of a game, or of the
\* romcenter of the header, the tree is the tree before with that one
\* element holding the tag's values in the fields of their names and the
\* values it had (the defaults, for a new element) in all others.
C13_ExactFields ==
    [][(/\ Running /\ pc' = "running" /\ seen' # seen
        /\ Last(seen').type = "Start")
       => LET e == Last(seen')
              open == OpenTags(seen)
              doc == result[1]
              new == result'[1]
              g == Len(doc.games)
          IN  /\ (e.tag \in RepeatableTags \ {"comment"}
                    /\ open = <<"datafile", "game">>) =>
                    new = [doc EXCEPT !.games[g][RepeatableVec(e.tag)]
                                          = Append(@, ItemOfTag(e))]
              /\ (e.tag = "game" /\ open = <<"datafile">>) =>
                    new = [doc EXCEPT !.games = Append(@, GameOfTag(e))]
              /\ (e.tag = "romcenter" /\ open = <<"datafile", "header">>) =>
                    new = [doc EXCEPT !.header[1].rom_center =
                              Some(RomCenterOfTag(IF IsSome(@) THEN @[1]
                                                  ELSE RomCenterDefault, e))]
       ]_vars

C13_Witness ==
    /\ Running
    /\ LastIsStartAt(<<"datafile", "header">>, "romcenter")
    /\ AttrValue(Last(seen), "biosmode", "") = "unmerged"
    /\ result[1].header[1].rom_center[1].bios_mode = "Unmerged"
    /\ result[1].header[1].rom_center[1].rom_mode = "Split"
    /\ result[1].header[1].rom_center[1].lock_rom_mode

\* C14: a lenient read_all never returns UnexpectedAttribute or
\* UnexpectedElement: after any start tag whose attributes the tokenizer
\* delivered the parse goes on, and an error it returns is the Xml error,
\* returned on a token the tokenizer failed on or on end-of-input.
C14_LenientOnlyXml ==
    ~strict =>
        /\ (Returned /\ ret[1].kind = "Err") =>
              /\ ret[1].err = "Xml"
              /\ \/ Last(seen).type \in {"Fail", "Eof"}
                 \/ ~Last(seen).ok
                 \/ LastIsStart /\ ~AllAttrsDelivered(Last(seen))
        /\ (LastIsStart /\ AllAttrsDelivered(Last(seen))) => Running

C14_Witness ==
    /\ ~strict
    /\ ReturnedOk
    /\ StartsAt(seen, <<"datafile", "game">>, "bogus") # <<>>

\* C16: the reader is strict when constructed, and only set_strict, called
\* before read_all, changes the flag: the step that starts read_all and
\* every step of the parse (read_all, read_content, skip_content,
\* apply_attrs) leave it as it was, so one mode is in effect for all the
\* events of a parse.
C16_StrictFixedDuringParse ==
    /\ strict = TRUE
    /\ [][(pc = "ready" /\ pc' = "ready") \/ strict' = strict]_vars

C16_Witness ==
    /\ ~strict
    /\ Running
    /\ Len(seen) >= 3
    /\ Len(stack) = 2
    /\ Last(stack).fn = "skip_content"

\* the children of game as the schema lists them
ListedGameChildren ==
    {"comment", "description", "year", "manufacturer", "release", "biosset",
     "rom", "disk", "sample", "archive"}

\* a strict parse has just read a start tag directly inside a game
StrictTagInGame ==
    strict /\ LastIsStart /\ OpenTags(Front(seen)) = <<"datafile", "game">>

\* C17 as stated: in strict mode a start tag inside a game is accepted
\* exactly when its name is one of comment, description, year,
\* manufacturer, release, biosset, rom, disk, sample, archive; any other
\* name ends the parse with UnexpectedElement.
C17_ListedChildrenOnly ==
    StrictTagInGame =>
        (Last(seen).tag \in ListedGameChildren
            <=> ~ReturnedErr("UnexpectedElement"))

\* C17, amended: in strict mode a start tag inside a game is accepted
\* exactly when its name is one of the listed children or `name`; any
\* other name ends the parse with UnexpectedElement.  An accepted tag whose
\* attributes are all set leaves the parse running.
C17_ListedChildrenAndName ==
    StrictTagInGame =>
        /\ (Last(seen).tag \in ListedGameChildren \cup {"name"}
               <=> ~ReturnedErr("UnexpectedElement"))
        /\ (Last(seen).tag \in ListedGameChildren \cup {"name"}
               /\ Last(seen).attrs = <<>>) => Running

C17_Witness ==
    /\ strict
    /\ Running
    /\ LastIsStartAt(<<"datafile", "game">>, "name")
    /\ Len(stack) = 3
    /\ Last(stack).cursor.tag = "name"

\* the open elements that were resolved: the longest run of `open`, from
\* the outermost element on, that is a nesting the schema knows
RECURSIVE SchemaPrefix(_)
SchemaPrefix(open) ==
    IF SchemaPath(open) THEN open ELSE SchemaPrefix(Front(open))

\* the read_content frames of a call stack, outermost first
ReadContentFrames(st) == SelectSeq(st, LAMBDA f : f.fn = "read_content")

TagOfFrame(f) == f.cursor.tag

\* C18: processing is depth-first and balanced.  During a parse the open
\* read_content frames are, outermost first, the resolved start tags not
\* yet closed, each bound to the element of its tag, and a skip_content
\* frame is only ever the innermost one.  A step removes a read_content
\* frame only by reading an end tag, which removes exactly the innermost
\* frame; a step adds one only by reading a start tag, on top of the frames
\* there were; every other step leaves the frames as they are.
C18_DepthFirstBalanced ==
    /\ [](Running =>
            /\ Map(ReadContentFrames(stack), TagOfFrame)
                  = SchemaPrefix(OpenTags(seen))
            /\ \A i \in 1..(Len(stack) - 1) : stack[i].fn = "read_content")
    /\ [][(Running /\ pc' = "running" /\ seen' # seen) =>
             LET rc == ReadContentFrames(stack)
                 rcNext == ReadContentFrames(stack')
                 e == Last(seen')
             IN  /\ (e.type = "End" /\ InReadContent) => stack' = Front(stack)
                 /\ Len(rcNext) < Len(rc)
                       => e.type = "End" /\ rcNext = Front(rc)
                 /\ Len(rcNext) > Len(rc)
                       => e.type = "Start" /\ Front(rcNext) = rc
                 /\ Len(rcNext) = Len(rc) => rcNext = rc]_vars

C18_Witness ==
    /\ Running
    /\ OpenTags(seen) = <<"datafile", "game", "comment">>
    /\ Len(StartsAt(seen, <<"datafile", "game">>, "comment")) = 2
    /\ Len(stack) = 3
    /\ Last(stack).cursor.tag = "comment"
    /\ Last(stack).cursor.ref.i = 2

\* C19: in a lenient parse, before end-of-input, skip_content is running
\* exactly while an unresolved element is open, and its level is the
\* number of open elements from that element inwards; so it returns on the
\* end tag that matches the skipped start tag.  The frames below it are
\* untouched while it runs: the event after the skipped element is handled
\* by the frame that met the element, bound to the node it was bound to
\* (the datafile, or the last game).  Elements that follow a skipped one
\* are parsed: every game tag directly in datafile has its entry.
C19_SkipEndsAtMatchingEnd ==
    /\ []((~strict /\ Running /\ ~AtEof(seen)) =>
            LET open == OpenTags(seen)
                known == SchemaPrefix(open)
            IN  /\ open = known => ~InSkipContent
                /\ open # known =>
                      /\ InSkipContent
                      /\ Last(stack).level = Len(open) - Len(known)
                /\ open = <<>> => stack = <<>>
                /\ open = <<"datafile">> =>
                      /\ Len(stack) = 1
                      /\ Last(stack).cursor.ref.kind = "DataFile"
                /\ open = <<"datafile", "game">> =>
                      /\ Len(stack) = 2
                      /\ Last(stack).cursor.ref.kind = "Game"
                      /\ Last(stack).cursor.ref.g = Len(result[1].games)
                /\ IsSome(result) =>
                      Len(result[1].games)
                         = Len(StartsAt(seen, <<"datafile">>, "game")))
    /\ [][(~strict /\ InSkipContent /\ pc' = "running") =>
             /\ Front(stack') = Front(stack) \/ stack' = Front(stack)
             /\ result' = result]_vars

C19_Witness ==
    /\ ~strict
    /\ Running
    /\ LastIsStartAt(<<"datafile", "game">>, "rom")
    /\ StartsAt(seen, <<"datafile", "game">>, "bogus") # <<>>
    /\ Len(result[1].games[1].roms) = 1
    /\ Len(stack) = 3

\* the text children of header, and the nestings whose innermost element
\* is a text leaf of the header or a comment of a game
HeaderTextTags ==
    {"name", "description", "category", "version", "date", "author", "email",
     "homepage", "url", "comment"}

HeaderLeafPath(open) ==
    /\ Len(open) = 3
    /\ SubSeq(open, 1, 2) = <<"datafile", "header">>
    /\ open[3] \in HeaderTextTags

GameLeafPath(open) ==
    /\ Len(open) = 3
    /\ SubSeq(open, 1, 2) = <<"datafile", "game">>
    /\ open[3] \in {"name", "description", "year", "manufacturer", "comment"}

\* C20: a Text or CData event read where the innermost open element is not
\* a text leaf (at the top level, directly inside datafile, header, game,
\* release, biosset, rom, disk, sample, archive, clrmamepro or romcenter,
\* or inside a skipped element) changes neither the tree nor the frames
\* and the parse goes on, in either mode and whether or not the text can
\* be decoded.  Read inside a text child of the header or a comment of a
\* game, decodable text is appended to that string and nothing else
\* changes.
C20_TextOnlyIntoLeaves ==
    [][(/\ Running /\ seen' # seen
        /\ Last(seen').type \in {"Text", "CData"})
       => LET e == Last(seen')
              open == OpenTags(seen)
          IN  /\ (~HeaderLeafPath(open) /\ ~GameLeafPath(open)) =>
                    /\ pc' = "running"
                    /\ result' = result
                    /\ stack' = stack
              /\ (HeaderLeafPath(open) /\ e.ok) =>
                    /\ pc' = "running"
                    /\ result'[1] = [result[1] EXCEPT
                                        !.header[1][open[3]] = @ \o e.text]
              /\ (GameLeafPath(open) /\ open[3] = "comment" /\ e.ok) =>
                    LET g == Len(result[1].games)
                        n == Len(result[1].games[g].comments)
                    IN  /\ pc' = "running"
                        /\ result'[1] = [result[1] EXCEPT
                                            !.games[g].comments[n] = @ \o e.text]
       ]_vars

C20_Witness ==
    /\ strict
    /\ Running
    /\ seen # <<>>
    /\ Last(seen).type = "Text"
    /\ ~Last(seen).ok
    /\ OpenTags(seen) = <<"datafile", "game", "rom">>
    /\ result[1].games[1].roms = <<RomDefault>>

\* the value the last of the start tags `tags` that carries attribute `key`
\* gives it, `absent` when none carries it
RECURSIVE LastValue(_, _, _)
LastValue(tags, key, absent) ==
    IF tags = <<>> THEN absent
    ELSE IF HasAttr(Last(tags), key) THEN AttrValue(Last(tags), key, absent)
    ELSE LastValue(Front(tags), key, absent)

\* C21: a second top-level datafile start tag continues the one DataFile.
\* At every point of a parse, and in the document returned, build and debug
\* are what the last top-level datafile tag that carries them gave, the
\* games are the game tags directly inside any top-level datafile, in
\* input order, and the header is there once any of them held a header
\* tag.  The step of a later top-level datafile tag whose attributes can
\* all be set raises no error, keeps header and games as they were and
\* opens one read_content frame.
C21_SecondRootContinues ==
    /\ [](IsSome(Tree) =>
            LET roots == StartsAt(seen, <<>>, "datafile")
            IN  /\ Tree[1].build = LastValue(roots, "build", "")
                /\ Tree[1].debug = DebugAfter(roots)
                /\ Map(Tree[1].games, SourceFileOfGame)
                      = Map(StartsAt(seen, <<"datafile">>, "game"), SourceFileOfTag)
                /\ IsSome(Tree[1].header)
                      <=> StartsAt(seen, <<"datafile">>, "header") # <<>>)
    /\ [][(/\ Running /\ seen' # seen /\ IsSome(result)
            /\ OpenTags(seen) = <<>>
            /\ Last(seen').type = "Start" /\ Last(seen').tag = "datafile"
            /\ AllAttrsDelivered(Last(seen'))
            /\ \A i \in 1..Len(Last(seen').attrs) :
                  ~Unsettable(Last(seen').attrs[i], DataFileAttrKeys, {"debug"}))
           => /\ pc' = "running"
              /\ result'[1].games = result[1].games
              /\ result'[1].header = result[1].header
              /\ Len(stack') = 1
              /\ Last(stack').cursor.ref.kind = "DataFile"]_vars

C21_Witness ==
    /\ Running
    /\ LastIsStartAt(<<>>, "datafile")
    /\ Len(StartsAt(seen, <<>>, "datafile")) = 2
    /\ Len(result[1].games) = 1
    /\ result[1].games[1].source_file = "a"
    /\ result[1].build = "B2"
    /\ result[1].debug = FALSE

\* `open` ends in an element that has no child elements in the schema: a
\* text leaf, a release, biosset, rom, disk, sample or archive of a game, or
\* the clrmamepro or romcenter of the header
ChildlessPath(open) == Len(open) = 3 /\ SchemaPath(open)

\* start tag `tag` directly inside `open` opens a text leaf other than a
\* comment of a game
PlainLeafTag(open, tag) ==
    \/ HeaderLeafPath(Append(open, tag))
    \/ GameLeafPath(Append(open, tag)) /\ tag # "comment"

\* C22: in strict mode a start tag directly inside a childless element
\* ends the parse with UnexpectedElement, and a start tag of a text leaf or
\* of the header whose first attribute the tokenizer delivered ends it with
\* UnexpectedAttribute.  In lenient mode the first is skipped with the tree
\* unchanged, and the attributes of the second are dropped: the tag has
\* the effect of the same tag without attributes (none on the tree for a
\* text leaf, an empty comment more for a comment, the header created if
\* there was none).
C22_NoCapabilityRejects ==
    /\ []((strict /\ LastIsStart) =>
            LET e == Last(seen)
                open == OpenTags(Front(seen))
            IN  /\ ChildlessPath(open) => ReturnedErr("UnexpectedElement")
                /\ (/\ e.attrs # <<>> /\ e.attrs[1].ok
                     /\ \/ open = <<"datafile">> /\ e.tag = "header"
                        \/ PlainLeafTag(open, e.tag)
                        \/ open = <<"datafile", "game">> /\ e.tag = "comment")
                       => ReturnedErr("UnexpectedAttribute"))
    /\ [][(/\ ~strict /\ Running /\ seen' # seen
            /\ Last(seen').type = "Start")
           => LET e == Last(seen')
                  open == OpenTags(seen)
                  doc == result[1]
              IN  /\ ChildlessPath(open) =>
                        /\ pc' = "running"
                        /\ result' = result
                        /\ Last(stack').fn = "skip_content"
                        /\ Front(stack') = stack
                  /\ (AllAttrsDelivered(e) /\ PlainLeafTag(open, e.tag)) =>
                        /\ pc' = "running"
                        /\ result' = result
                        /\ Last(stack').cursor.tag = e.tag
                  /\ (AllAttrsDelivered(e) /\ open = <<"datafile", "game">>
                        /\ e.tag = "comment") =>
                        /\ pc' = "running"
                        /\ result'[1] = [doc EXCEPT
                                            !.games[Len(doc.games)].comments
                                                = Append(@, "")]
                  /\ (AllAttrsDelivered(e) /\ open = <<"datafile">>
                        /\ e.tag = "header") =>
                        /\ pc' = "running"
                        /\ result'[1] = [doc EXCEPT !.header =
                                            IF IsSome(@) THEN @
                                            ELSE Some(HeaderDefault)]]_vars

C22_Witness ==
    /\ strict
    /\ LastIsStartAt(<<"datafile", "game", "rom">>, "disk")
    /\ ReturnedErr("UnexpectedElement")

\* the step of a strict parse ends it with one of the two errors only
\* strict mode knows
EndsUnexpected ==
    /\ pc' = "done"
    /\ ret'[1].err \in {"UnexpectedAttribute", "UnexpectedElement"}

\* C23: a strict parse is, step by step, the lenient parse of the same
\* events until it returns UnexpectedAttribute or UnexpectedElement.  A
\* strict parse never runs skip_content; the handlers of every event but a
\* start tag do not read the flag; and the step a strict parse takes on a
\* start tag, unless it ends with one of the two errors, is the step the
\* handler takes on the same tree, cursor and tag with the flag off.  So an
\* input strict mode accepts gives the same tree, and an input it rejects
\* with the Xml error the same error, in lenient mode.
C23_StrictRunIsLenientRun ==
    /\ [](strict => ~InSkipContent)
    /\ [][(/\ strict /\ Running /\ seen' # seen
            /\ Last(seen').type = "Start"
            /\ ~EndsUnexpected)
           => IF stack = <<>>
              THEN Take(read_all_Start(result, Last(seen'), FALSE), stack)
              ELSE Take(read_content_Start(result, Last(stack).cursor,
                                           Last(seen'), FALSE), stack)]_vars

C23_Witness ==
    /\ strict
    /\ ReturnedOk
    /\ Len(ret[1].doc[1].games) = 1
    /\ Len(ret[1].doc[1].games[1].releases) = 1
    /\ ret[1].doc[1].games[1].releases[1].name = "r1"
    /\ ret[1].doc[1].games[1].releases[1].default

\* the decodable character data of s read directly inside the elements
\* `path`, concatenated in document order
RECURSIVE TextAt(_, _)
TextAt(s, path) ==
    IF s = <<>> THEN ""
    ELSE LET e == Last(s)
         IN  TextAt(Front(s), path)
                \o (IF e.type \in {"Text", "CData"} /\ e.ok
                        /\ OpenTags(Front(s)) = path
                     THEN e.text ELSE "")

\* C24: a text child of header or game that is not repeatable is bound to
\* the field of its name on every occurrence and only appended to.  Every
\* text field of the header is the concatenation, in document order, of
\* the text read inside the header's elements of that name; in a document
\* with one game, the game's description, year and manufacturer likewise,
\* and its name is the value of the name attribute followed by the text of
\* its name children.  The start tag of such a child changes nothing in
\* the tree, and decodable text read inside one is appended to that field
\* of the header or of the last game and changes nothing else.
C24_TextChildrenAppend ==
    /\ [](IsSome(Tree) =>
            LET doc == Tree[1]
                games == StartsAt(seen, <<"datafile">>, "game")
            IN  /\ IsSome(doc.header) =>
                      \A tag \in HeaderTextTags :
                          doc.header[1][tag]
                             = TextAt(seen, <<"datafile", "header", tag>>)
                /\ Len(games) = 1 =>
                      /\ doc.games[1].name
                            = AttrValue(games[1], "name", "")
                                 \o TextAt(seen, <<"datafile", "game", "name">>)
                      /\ \A tag \in {"description", "year", "manufacturer"} :
                            doc.games[1][tag]
                               = TextAt(seen, <<"datafile", "game", tag>>))
    /\ [][(Running /\ pc' = "running" /\ seen' # seen) =>
             LET e == Last(seen')
                 open == OpenTags(seen)
                 doc == result[1]
             IN  /\ (e.type = "Start" /\ e.attrs = <<>>
                       /\ PlainLeafTag(open, e.tag)) => result' = result
                 /\ (e.type \in {"Text", "CData"} /\ HeaderLeafPath(open)) =>
                       result'[1] = [doc EXCEPT
                                        !.header[1][open[3]] = @ \o e.text]
                 /\ (e.type \in {"Text", "CData"} /\ GameLeafPath(open)
                       /\ open[3] # "comment") =>
                       result'[1] = [doc EXCEPT
                                        !.games[Len(doc.games)][open[3]]
                                            = @ \o e.text]
       ]_vars

C24_Witness ==
    /\ Running
    /\ OpenTags(seen) = <<"datafile", "game", "name">>
    /\ Len(StartsAt(seen, <<"datafile", "game">>, "name")) = 2
    /\ result[1].games[1].name = "gn"

\* C25: read_all terminates.  A parse that is running is eventually done;
\* each of its steps consumes exactly one event; it never needs a read the
\* source does not answer; and once end-of-input was read it is still
\* running only when skip_content consumed it, in which case the next read
\* is the last.
C25_Terminates ==
    /\ Running ~> (pc = "done")
    /\ [](Running => NextEvents(seen, profile) # {})
    /\ []((Running /\ AtEof(seen)) => (~strict /\ ~AtEof(Front(seen))))
    /\ [][Running => Len(seen') = Len(seen) + 1]_vars

C25_Witness ==
    /\ pc = "done"
    /\ ~strict
    /\ Len(seen) = MaxEvents + 2
    /\ AtEof(Front(seen))
    /\ Len(OpenTags(seen)) >= 3

====
